---------------------------- MODULE Spec2Model ----------------------------
(***************************************************************************)
(* The animal guessing game of src/HW3-4.cpp: a binary decision tree of    *)
(* heap-allocated Nodes owned through unique_ptr, walked by askQuestions,  *)
(* grown by learnNewAnimal and rebuilt by resetToInitialState.  The file   *)
(* holds two programs.  The AnimalTree / AnimalGame version (lines         *)
(* 234-494) is modelled by the variables heap .. learned; the single-class *)
(* version (lines 1-232) by the record game1, which reads the same inputs. *)
(*                                                                         *)
(* Nodes live in an arena of MaxNodes cells.  A cell is never handed out   *)
(* twice, so a node id is an object identity: a node destroyed by a reset  *)
(* stays "freed" and is told apart from every node allocated later.        *)
(***************************************************************************)
EXTENDS Integers, Sequences, FiniteSets, TLC

\* ------------------------------------------------------------------ bounds
\* Capacity of the node arena (number of Node objects ever allocated).
MaxNodes == 10

\* ------------------------------------------------------- inputs and literals
\* Tokens read by `std::cin >> answer`: the two the code compares with, and one other.
Answers == {"yes", "no", "maybe"}
\* Lines read by getline for the new animal's name.
Names == {"Cat", "Dog"}
\* Lines read by getline for the distinguishing question.
Questions == {"Does it bark?"}
\* Integers read by `std::cin >> choice`: the four menu entries and one other.
Choices == {1, 2, 3, 4, 9}

RootQuestion == "Is your animal warm or cold blooded?"
DefaultYes == "Dog"
DefaultNo == "Snake"

\* A null Node pointer (unique_ptr<Node>{} / nullptr).
NULL == 0
\* A null unique_ptr<Animal>; a held animal is the one-element sequence of its name.
NoAnimal == << >>

NodeIds == 1..MaxNodes

VARIABLES
    heap,           \* arena: NodeIds -> Node object (or an unallocated / freed cell)
    root,           \* AnimalTree::root
    next,           \* the next arena cell the allocator hands out
    pc,             \* where the program waits for input
    current,        \* askQuestions' / learnNewAnimal's `current`
    answer,         \* askQuestions' `answer`: the last token it read
    newAnimalName,  \* learnNewAnimal's local
    newQuestion,    \* learnNewAnimal's local
    learnAnswer,    \* learnNewAnimal's `answer`
    choice,         \* promptAfterRound's `choice`
    listed,         \* the animals printed by the listAnimals call of the last menu step
    outcome,        \* how the last finished round ended
    visited,        \* the nodes `current` has pointed at in this round, in order
    roundHeap,      \* the arena as it was when this round's askQuestions was entered
    learned,        \* the learnNewAnimal calls completed in this round
    game1           \* the single-class program (lines 1-232) given the same inputs

vars == << heap, root, next, pc, current, answer, newAnimalName, newQuestion,
           learnAnswer, choice, listed, outcome, visited, roundHeap, learned, game1 >>

\* --------------------------------------------------------------- class Node
\* An arena cell no Node was ever constructed in.
Unallocated == [question |-> "", yes |-> NULL, no |-> NULL, animal |-> NoAnimal, st |-> "unalloc"]
\* The cell of a destroyed Node: its members were destroyed with it.
Freed == [question |-> "", yes |-> NULL, no |-> NULL, animal |-> NoAnimal, st |-> "freed"]

\* Node(const std::string& question)
NodeQ(q) == [question |-> q, yes |-> NULL, no |-> NULL, animal |-> NoAnimal, st |-> "live"]
\* Node(std::unique_ptr<Animal> animal)
NodeA(a) == [question |-> "", yes |-> NULL, no |-> NULL, animal |-> a, st |-> "live"]

\* std::make_unique<DynamicAnimal>(name)
DynamicAnimal(name) == << name >>
\* DynamicAnimal::getName
getName(a) == a[1]

\* Node::isLeaf
isLeaf(h, n) == h[n].animal # NoAnimal

\* The nodes owned, directly or through its children, by the pointer n.
RECURSIVE Owned(_, _)
Owned(h, n) ==
    IF n = NULL THEN {}
    ELSE {n} \cup Owned(h, h[n].yes) \cup Owned(h, h[n].no)

\* ~unique_ptr<Node>: destroys the node n points at and, through ~Node, all it owns.
destroy(h, n) == [m \in NodeIds |-> IF m \in Owned(h, n) THEN Freed ELSE h[m]]

\* ------------------------------------------------------------- AnimalTree
\* Mutant of resetToInitialState: builds the default tree only when there is no
\* tree yet (`if (!root)`), so a reset keeps what was learnt.
resetOnlyWhenEmpty(h, r, nx) ==
    IF r # NULL
    THEN [heap |-> h, root |-> r, next |-> nx]
    ELSE LET h1 == [h EXCEPT ![nx] = NodeQ(RootQuestion)]
             h3 == [h1 EXCEPT ![nx + 1] = NodeA(DynamicAnimal(DefaultYes)),
                              ![nx].yes = nx + 1]
             h4 == [h3 EXCEPT ![nx + 2] = NodeA(DynamicAnimal(DefaultNo)),
                              ![nx].no = nx + 2]
         IN  [heap |-> h4, root |-> nx, next |-> nx + 3]

\* AnimalTree::resetToInitialState on heap h with root r, allocating from cell nx.
\* The new root is made before the assignment destroys the old tree.
resetToInitialState(h, r, nx) ==
    LET h1 == [h EXCEPT ![nx] = NodeQ(RootQuestion)]
        h2 == destroy(h1, r)
        h3 == [h2 EXCEPT ![nx + 1] = NodeA(DynamicAnimal(DefaultYes)),
                         ![nx].yes = nx + 1]
        h4 == [h3 EXCEPT ![nx + 2] = NodeA(DynamicAnimal(DefaultNo)),
                         ![nx].no = nx + 2]
    IN  [heap |-> h4, root |-> nx, next |-> nx + 3]

\* AnimalTree::getRoot
getRoot == root

\* Mutant of collectAnimals: the no subtree is walked before the yes subtree.
RECURSIVE collectAnimalsNoFirst(_, _)
collectAnimalsNoFirst(h, cur) ==
    IF cur = NULL THEN << >>
    ELSE IF isLeaf(h, cur) THEN << getName(h[cur].animal) >>
    ELSE collectAnimalsNoFirst(h, h[cur].no) \o collectAnimalsNoFirst(h, h[cur].yes)

\* AnimalTree::collectAnimals
RECURSIVE collectAnimals(_, _)
collectAnimals(h, cur) ==
    IF cur = NULL THEN << >>
    ELSE IF isLeaf(h, cur) THEN << getName(h[cur].animal) >>
    ELSE collectAnimals(h, h[cur].yes) \o collectAnimals(h, h[cur].no)

\* ------------------------------------------------------------- AnimalGame
\* Mutant of advance: the two branches are crossed.
advanceCrossed(h, cur, a) ==
    IF a = "yes" THEN h[cur].no
    ELSE IF a = "no" THEN h[cur].yes
    ELSE cur

\* Mutant of advance: "no" does not move the cursor.
advanceNoStays(h, cur, a) ==
    IF a = "yes" THEN h[cur].yes
    ELSE cur

\* Mutant of advance: every token but "yes" is taken as "no".
advanceElseNo(h, cur, a) ==
    IF a = "yes" THEN h[cur].yes
    ELSE h[cur].no

\* The cursor after one pass of askQuestions' loop body on the token a.
advance(h, cur, a) ==
    IF a = "yes" THEN h[cur].yes
    ELSE IF a = "no" THEN h[cur].no
    ELSE cur

\* Mutant of atNode: the loop test is inverted (`while (current->isLeaf())`), so
\* the guess is made at a question node.
atNodeInverted(h, cur) == IF isLeaf(h, cur) THEN "ask" ELSE "guess"

\* The state askQuestions is in with the cursor on cur: looping, or past the loop.
atNode(h, cur) == IF isLeaf(h, cur) THEN "guess" ELSE "ask"

\* Mutant of guessed: the two tests are exchanged, "yes" leads to teaching.
guessedReversed(a) ==
    IF a = "no" THEN "Confirmed"
    ELSE IF a = "yes" THEN "Teaching"
    ELSE "Unanswered"

\* The outcome of the guess prompt on the token a.
guessed(a) ==
    IF a = "yes" THEN "Confirmed"
    ELSE IF a = "no" THEN "Teaching"
    ELSE "Unanswered"

\* Mutant of learnNewAnimal: the new animal goes to the branch opposite to the answer.
learnNewAnimalSwapped(h, cur, name, q, a, nx) ==
    LET h1 == [h EXCEPT ![nx] = NodeA(DynamicAnimal(name))]
        h2 == [h1 EXCEPT ![nx + 1] = NodeA(h[cur].animal), ![cur].animal = NoAnimal]
        h3 == [h2 EXCEPT ![cur].question = q]
    IN  IF a = "yes"
        THEN [h3 EXCEPT ![cur].yes = nx + 1, ![cur].no = nx]
        ELSE [h3 EXCEPT ![cur].yes = nx, ![cur].no = nx + 1]

\* Mutant of learnNewAnimal: the answer is not looked at, the new animal is always on "yes".
learnNewAnimalAlwaysYes(h, cur, name, q, a, nx) ==
    LET h1 == [h EXCEPT ![nx] = NodeA(DynamicAnimal(name))]
        h2 == [h1 EXCEPT ![nx + 1] = NodeA(h[cur].animal), ![cur].animal = NoAnimal]
        h3 == [h2 EXCEPT ![cur].question = q]
    IN  [h3 EXCEPT ![cur].yes = nx, ![cur].no = nx + 1]

\* Mutant of learnNewAnimal: the old leaf is rebuilt from the new name, the old label is lost.
learnNewAnimalDropsOld(h, cur, name, q, a, nx) ==
    LET h1 == [h EXCEPT ![nx] = NodeA(DynamicAnimal(name))]
        h2 == [h1 EXCEPT ![nx + 1] = NodeA(DynamicAnimal(name)), ![cur].animal = NoAnimal]
        h3 == [h2 EXCEPT ![cur].question = q]
    IN  IF a = "yes"
        THEN [h3 EXCEPT ![cur].yes = nx, ![cur].no = nx + 1]
        ELSE [h3 EXCEPT ![cur].yes = nx + 1, ![cur].no = nx]

\* Mutant of learnNewAnimal: the animal is copied, not moved, out of `current`,
\* which so stays a leaf by isLeaf.
learnNewAnimalCopies(h, cur, name, q, a, nx) ==
    LET h1 == [h EXCEPT ![nx] = NodeA(DynamicAnimal(name))]
        h2 == [h1 EXCEPT ![nx + 1] = NodeA(h[cur].animal)]
        h3 == [h2 EXCEPT ![cur].question = q]
    IN  IF a = "yes"
        THEN [h3 EXCEPT ![cur].yes = nx, ![cur].no = nx + 1]
        ELSE [h3 EXCEPT ![cur].yes = nx + 1, ![cur].no = nx]

\* Mutant of learnNewAnimal: both branches are pointed at the new animal's node.
learnNewAnimalSharesChild(h, cur, name, q, a, nx) ==
    LET h1 == [h EXCEPT ![nx] = NodeA(DynamicAnimal(name))]
        h2 == [h1 EXCEPT ![nx + 1] = NodeA(h[cur].animal), ![cur].animal = NoAnimal]
        h3 == [h2 EXCEPT ![cur].question = q]
    IN  [h3 EXCEPT ![cur].yes = nx, ![cur].no = nx]

\* The tree surgery of learnNewAnimal (the statements after its three reads).
\* Move-assigning current->yes / current->no destroys what they owned before.
learnNewAnimal(h, cur, name, q, a, nx) ==
    LET newAnimalNode == nx
        oldAnimalNode == nx + 1
        h1 == [h EXCEPT ![newAnimalNode] = NodeA(DynamicAnimal(name))]
        h2 == [h1 EXCEPT ![oldAnimalNode] = NodeA(h[cur].animal),
                         ![cur].animal = NoAnimal]
        h3 == [h2 EXCEPT ![cur].question = q]
        h4 == destroy(destroy(h3, h3[cur].yes), h3[cur].no)
    IN  IF a = "yes"
        THEN [h4 EXCEPT ![cur].yes = newAnimalNode, ![cur].no = oldAnimalNode]
        ELSE [h4 EXCEPT ![cur].yes = oldAnimalNode, ![cur].no = newAnimalNode]

\* ------------------------------------- AnimalGame, the single-class version
\* The first program of src/HW3-4.cpp (lines 1-232): AnimalGame owns the root
\* itself.  Its classes Animal, DynamicAnimal and Node (lines 15-55) are the text
\* of lines 240-288, so the Node operators above serve both programs.  Its state
\* is the record game1: its own arena (heap, next), AnimalGame::root, the locals
\* of its member functions, where it waits for input (pc) and what its last
\* listAnimals call printed (listed).

\* AnimalGame::resetToInitialState of the single-class version.
resetToInitialState1(g) ==
    LET nx == g.next
        h1 == [g.heap EXCEPT ![nx] = NodeQ("Is your animal warm or cold blooded?")]
        h2 == destroy(h1, g.root)
        h3 == [h2 EXCEPT ![nx + 1] = NodeA(DynamicAnimal("Dog")), ![nx].yes = nx + 1]
        h4 == [h3 EXCEPT ![nx + 2] = NodeA(DynamicAnimal("Snake")), ![nx].no = nx + 2]
    IN  [g EXCEPT !.heap = h4, !.root = nx, !.next = nx + 3]

\* AnimalGame::reset of the single-class version.
reset1(g) == resetToInitialState1(g)

\* AnimalGame::collectAnimals of the single-class version.
RECURSIVE collectAnimals1(_, _)
collectAnimals1(h, cur) ==
    IF cur = NULL THEN << >>
    ELSE IF h[cur].animal # NoAnimal THEN << getName(h[cur].animal) >>
    ELSE collectAnimals1(h, h[cur].yes) \o collectAnimals1(h, h[cur].no)

\* AnimalGame::listAnimals of the single-class version: the lines it prints.
listAnimals1(g) == collectAnimals1(g.heap, g.root)

\* play()'s loop entering askQuestions(root.get()): the cursor is at the root and
\* the program waits at the first prompt askQuestions reaches.
play1(g) ==
    [g EXCEPT !.current = g.root,
              !.pc = IF isLeaf(g.heap, g.root) THEN "guess" ELSE "ask"]

\* askQuestions of the single-class version, one pass of its while loop on the
\* token a.
askQuestions1(g, a) ==
    LET cur == IF a = "yes" THEN g.heap[g.current].yes
               ELSE IF a = "no" THEN g.heap[g.current].no
               ELSE g.current
    IN  [g EXCEPT !.answer = a,
                  !.current = cur,
                  !.pc = IF isLeaf(g.heap, cur) THEN "guess" ELSE "ask"]

\* askQuestions of the single-class version past the loop: the token a read at
\* the guess.  "no" enters learnNewAnimal, whose locals are fresh.
guess1(g, a) ==
    IF a = "yes" THEN [g EXCEPT !.answer = a, !.pc = "menu"]
    ELSE IF a = "no"
         THEN [g EXCEPT !.answer = a, !.pc = "teach_name", !.newAnimalName = "",
                        !.newQuestion = "", !.learnAnswer = ""]
         ELSE [g EXCEPT !.answer = a, !.pc = "menu"]

\* learnNewAnimal of the single-class version: getline(newAnimalName).
learnName1(g, name) == [g EXCEPT !.newAnimalName = name, !.pc = "teach_question"]

\* learnNewAnimal of the single-class version: getline(newQuestion).
learnQuestion1(g, q) == [g EXCEPT !.newQuestion = q, !.pc = "teach_answer"]

\* Mutant of learnNewAnimal1: the two branches of its `if` are exchanged.
learnNewAnimal1Exchanged(g, a) ==
    LET cur == g.current
        newAnimalNode == g.next
        oldAnimalNode == g.next + 1
        h1 == [g.heap EXCEPT ![newAnimalNode] = NodeA(DynamicAnimal(g.newAnimalName))]
        h2 == [h1 EXCEPT ![oldAnimalNode] = NodeA(g.heap[cur].animal),
                         ![cur].animal = NoAnimal]
        h3 == [h2 EXCEPT ![cur].question = g.newQuestion]
        h4 == destroy(destroy(h3, h3[cur].yes), h3[cur].no)
        h5 == IF a = "yes"
              THEN [h4 EXCEPT ![cur].yes = oldAnimalNode, ![cur].no = newAnimalNode]
              ELSE [h4 EXCEPT ![cur].yes = newAnimalNode, ![cur].no = oldAnimalNode]
    IN  [g EXCEPT !.learnAnswer = a, !.heap = h5, !.next = g.next + 2, !.pc = "menu"]

\* learnNewAnimal of the single-class version from its third read on: the token a,
\* the two new nodes, the rebuilt node; askQuestions returns and play() calls
\* promptAfterRound.
learnNewAnimal1(g, a) ==
    LET cur == g.current
        newAnimalNode == g.next
        oldAnimalNode == g.next + 1
        h1 == [g.heap EXCEPT ![newAnimalNode] = NodeA(DynamicAnimal(g.newAnimalName))]
        h2 == [h1 EXCEPT ![oldAnimalNode] = NodeA(g.heap[cur].animal),
                         ![cur].animal = NoAnimal]
        h3 == [h2 EXCEPT ![cur].question = g.newQuestion]
        h4 == destroy(destroy(h3, h3[cur].yes), h3[cur].no)
        h5 == IF a = "yes"
              THEN [h4 EXCEPT ![cur].yes = newAnimalNode, ![cur].no = oldAnimalNode]
              ELSE [h4 EXCEPT ![cur].yes = oldAnimalNode, ![cur].no = newAnimalNode]
    IN  [g EXCEPT !.learnAnswer = a, !.heap = h5, !.next = g.next + 2, !.pc = "menu"]

\* promptAfterRound of the single-class version on the integer c: 1 and 2 return
\* to play()'s loop, 3 and any other integer show the menu again, 4 exits.
promptAfterRound1(g, c) ==
    LET m == [g EXCEPT !.choice = c, !.listed = << >>]
    IN  CASE c = 1 -> play1(m)
          [] c = 2 -> play1(reset1(m))
          [] c = 3 -> [m EXCEPT !.listed = listAnimals1(m)]
          [] c = 4 -> [m EXCEPT !.pc = "exited"]
          [] OTHER -> m

\* main of the single-class version: `AnimalGame game` runs the constructor,
\* game.play() enters the first round.
main1 ==
    play1(resetToInitialState1(
        [heap |-> [n \in NodeIds |-> Unallocated], root |-> NULL, next |-> 1,
         pc |-> "start", current |-> NULL, answer |-> "", newAnimalName |-> "",
         newQuestion |-> "", learnAnswer |-> "", choice |-> 0, listed |-> << >>]))

\* The single-class program reading one input where it waits: each input goes to
\* the read it is parked at.  A token where an integer is awaited, or the other
\* way round, is not an input the callers modelled here give.
step1(g, at, after) == IF g.pc = at THEN after ELSE g

\* Arena cells still available.
remaining == MaxNodes - (next - 1)

\* ----------------------------------------------------------------- Init
\* main: `AnimalGame game` constructs the tree; game.play() enters the first
\* round with askQuestions(tree.getRoot()).
Init ==
    LET t == resetToInitialState([n \in NodeIds |-> Unallocated], NULL, 1)
    IN  /\ heap = t.heap
        /\ root = t.root
        /\ next = t.next
        /\ current = t.root
        /\ pc = atNode(t.heap, t.root)
        /\ answer = ""
        /\ newAnimalName = ""
        /\ newQuestion = ""
        /\ learnAnswer = ""
        /\ choice = 0
        /\ listed = << >>
        /\ outcome = "None"
        /\ visited = << t.root >>
        /\ roundHeap = t.heap
        /\ learned = 0
        /\ game1 = main1

\* ---------------------------------------------------------------- actions
\* askQuestions, one pass of the while loop: read a token, move the cursor.
Ask ==
    /\ pc = "ask"
    /\ \E a \in Answers :
        /\ answer' = a
        /\ current' = advance(heap, current, a)
        /\ visited' = IF a \in {"yes", "no"}
                      THEN Append(visited, advance(heap, current, a))
                      ELSE visited
        /\ pc' = atNode(heap, advance(heap, current, a))
        /\ game1' = step1(game1, "ask", askQuestions1(game1, a))
    /\ UNCHANGED << heap, root, next, newAnimalName, newQuestion, learnAnswer,
                    choice, listed, outcome, roundHeap, learned >>

\* askQuestions past the loop: print the guess, read a token, branch on it.
Guess ==
    /\ pc = "guess"
    /\ \E a \in Answers :
        /\ answer' = a
        /\ IF guessed(a) = "Teaching"
           THEN /\ pc' = "teach_name"
                /\ newAnimalName' = ""
                /\ newQuestion' = ""
                /\ learnAnswer' = ""
                /\ UNCHANGED outcome
           ELSE /\ pc' = "menu"
                /\ outcome' = guessed(a)
                /\ UNCHANGED << newAnimalName, newQuestion, learnAnswer >>
        /\ game1' = step1(game1, "guess", guess1(game1, a))
    /\ UNCHANGED << heap, root, next, current, choice, listed, visited,
                    roundHeap, learned >>

\* learnNewAnimal: getline(newAnimalName).
LearnName ==
    /\ pc = "teach_name"
    /\ \E name \in Names :
        /\ newAnimalName' = name
        /\ game1' = step1(game1, "teach_name", learnName1(game1, name))
    /\ pc' = "teach_question"
    /\ UNCHANGED << heap, root, next, current, answer, newQuestion, learnAnswer,
                    choice, listed, outcome, visited, roundHeap, learned >>

\* learnNewAnimal: getline(newQuestion).
LearnQuestion ==
    /\ pc = "teach_question"
    /\ \E q \in Questions :
        /\ newQuestion' = q
        /\ game1' = step1(game1, "teach_question", learnQuestion1(game1, q))
    /\ pc' = "teach_answer"
    /\ UNCHANGED << heap, root, next, current, answer, newAnimalName, learnAnswer,
                    choice, listed, outcome, visited, roundHeap, learned >>

\* learnNewAnimal: read the branch answer, rebuild the node, return to play().
LearnAnswer ==
    /\ pc = "teach_answer"
    /\ \E a \in Answers :
        /\ learnAnswer' = a
        /\ heap' = learnNewAnimal(heap, current, newAnimalName, newQuestion, a, next)
        /\ game1' = step1(game1, "teach_answer", learnNewAnimal1(game1, a))
    /\ next' = next + 2
    /\ pc' = "menu"
    /\ outcome' = "Taught"
    /\ learned' = learned + 1
    /\ UNCHANGED << root, current, answer, newAnimalName, newQuestion,
                    choice, listed, visited, roundHeap >>

\* Mutant of MenuPlayAgain: case 1 has no `break` and falls through to the reset of case 2.
MenuPlayAgainFallsThrough ==
    /\ pc = "menu"
    /\ remaining >= 5
    /\ choice' = 1
    /\ game1' = step1(game1, "menu", promptAfterRound1(game1, 1))
    /\ LET t == resetToInitialState(heap, root, next)
       IN  /\ heap' = t.heap
           /\ root' = t.root
           /\ next' = t.next
           /\ current' = t.root
           /\ visited' = << t.root >>
           /\ pc' = atNode(t.heap, t.root)
           /\ roundHeap' = t.heap
    /\ learned' = 0
    /\ listed' = << >>
    /\ UNCHANGED << answer, newAnimalName, newQuestion, learnAnswer, outcome >>

\* promptAfterRound, choice 1: back to play()'s loop, askQuestions(tree.getRoot()).
MenuPlayAgain ==
    /\ pc = "menu"
    /\ remaining >= 2
    /\ choice' = 1
    /\ game1' = step1(game1, "menu", promptAfterRound1(game1, 1))
    /\ current' = getRoot
    /\ visited' = << getRoot >>
    /\ pc' = atNode(heap, getRoot)
    /\ listed' = << >>
    /\ roundHeap' = heap
    /\ learned' = 0
    /\ UNCHANGED << heap, root, next, answer, newAnimalName, newQuestion,
                    learnAnswer, outcome >>

\* Mutant of MenuReset: the root pointer is taken before the reset, so the next
\* round walks from the destroyed root.
MenuResetStaleCursor ==
    /\ pc = "menu"
    /\ remaining >= 5
    /\ choice' = 2
    /\ game1' = step1(game1, "menu", promptAfterRound1(game1, 2))
    /\ LET t == resetToInitialState(heap, root, next)
       IN  /\ heap' = t.heap
           /\ root' = t.root
           /\ next' = t.next
           /\ current' = root
           /\ visited' = << root >>
           /\ pc' = atNode(t.heap, root)
           /\ roundHeap' = t.heap
    /\ learned' = 0
    /\ listed' = << >>
    /\ UNCHANGED << answer, newAnimalName, newQuestion, learnAnswer, outcome >>

\* promptAfterRound, choice 2: tree.resetToInitialState(), then the next round.
MenuReset ==
    /\ pc = "menu"
    /\ remaining >= 5
    /\ choice' = 2
    /\ game1' = step1(game1, "menu", promptAfterRound1(game1, 2))
    /\ LET t == resetToInitialState(heap, root, next)
       IN  /\ heap' = t.heap
           /\ root' = t.root
           /\ next' = t.next
           /\ current' = t.root
           /\ visited' = << t.root >>
           /\ pc' = atNode(t.heap, t.root)
           /\ roundHeap' = t.heap
    /\ learned' = 0
    /\ listed' = << >>
    /\ UNCHANGED << answer, newAnimalName, newQuestion, learnAnswer, outcome >>

\* Mutant of MenuList: after listing, promptAfterRound returns to play() (the
\* re-prompt is left out), so a round starts.
MenuListThenPlays ==
    /\ pc = "menu"
    /\ choice' = 3
    /\ game1' = step1(game1, "menu", promptAfterRound1(game1, 3))
    /\ listed' = collectAnimals(heap, getRoot)
    /\ current' = getRoot
    /\ visited' = << getRoot >>
    /\ pc' = atNode(heap, getRoot)
    /\ roundHeap' = heap
    /\ learned' = 0
    /\ UNCHANGED << heap, root, next, answer, newAnimalName,
                    newQuestion, learnAnswer, outcome >>

\* promptAfterRound, choice 3: listAnimals(), then the menu again.
MenuList ==
    /\ pc = "menu"
    /\ choice' = 3
    /\ game1' = step1(game1, "menu", promptAfterRound1(game1, 3))
    /\ listed' = collectAnimals(heap, getRoot)
    /\ UNCHANGED << heap, root, next, pc, current, answer, newAnimalName,
                    newQuestion, learnAnswer, outcome, visited, roundHeap, learned >>

\* promptAfterRound, choice 4: std::exit(0).
MenuQuit ==
    /\ pc = "menu"
    /\ choice' = 4
    /\ game1' = step1(game1, "menu", promptAfterRound1(game1, 4))
    /\ pc' = "exited"
    /\ listed' = << >>
    /\ UNCHANGED << heap, root, next, current, answer, newAnimalName,
                    newQuestion, learnAnswer, outcome, visited, roundHeap, learned >>

\* promptAfterRound, default: "Invalid choice", then the menu again.
MenuInvalid ==
    /\ pc = "menu"
    /\ \E c \in Choices \ {1, 2, 3, 4} :
        /\ choice' = c
        /\ game1' = step1(game1, "menu", promptAfterRound1(game1, c))
    /\ listed' = << >>
    /\ UNCHANGED << heap, root, next, pc, current, answer, newAnimalName,
                    newQuestion, learnAnswer, outcome, visited, roundHeap, learned >>

Next ==
    \/ Ask
    \/ Guess
    \/ LearnName
    \/ LearnQuestion
    \/ LearnAnswer
    \/ MenuPlayAgain
    \/ MenuReset
    \/ MenuList
    \/ MenuQuit
    \/ MenuInvalid

Spec == Init /\ [][Next]_vars

\* ------------------------------------------------- a caller that answers validly
\* askQuestions' loop reading "yes" or "no".
AskValid == Ask /\ answer' \in {"yes", "no"}

\* The guess prompt reading "yes" or "no".
GuessValid == Guess /\ answer' \in {"yes", "no"}

\* The game with a caller who, at every prompt of a round that keeps being asked,
\* eventually gives an answer the prompt accepts.  Nothing is assumed at the menu.
SpecLive ==
    /\ Init
    /\ [][Next]_vars
    /\ WF_vars(AskValid)
    /\ WF_vars(GuessValid)
    /\ WF_vars(LearnName)
    /\ WF_vars(LearnQuestion)
    /\ WF_vars(LearnAnswer)

\* ------------------------------------------- learnNewAnimal called on any pointer
\* A second specification: resetToInitialState and learnNewAnimal called directly,
\* learnNewAnimal with `current` any pointer to a Node that was ever allocated
\* (a leaf, a question node, a node a reset destroyed) and its three inputs read.
ApiReady == {"api", "api_learned", "api_reset"}

\* `AnimalGame game`: the tree is constructed, no round is started.
InitApi ==
    LET t == resetToInitialState([n \in NodeIds |-> Unallocated], NULL, 1)
    IN  /\ heap = t.heap
        /\ root = t.root
        /\ next = t.next
        /\ current = NULL
        /\ pc = "api"
        /\ answer = ""
        /\ newAnimalName = ""
        /\ newQuestion = ""
        /\ learnAnswer = ""
        /\ choice = 0
        /\ listed = << >>
        /\ outcome = "None"
        /\ visited = << >>
        /\ roundHeap = t.heap
        /\ learned = 0
        /\ game1 = main1

\* tree.resetToInitialState()
ApiReset ==
    /\ pc \in ApiReady
    /\ remaining >= 3
    /\ LET t == resetToInitialState(heap, root, next)
       IN  /\ heap' = t.heap
           /\ root' = t.root
           /\ next' = t.next
    /\ pc' = "api_reset"
    /\ UNCHANGED << current, answer, newAnimalName, newQuestion, learnAnswer,
                    choice, listed, outcome, visited, roundHeap, learned, game1 >>

\* learnNewAnimal(ref).  On a live leaf every statement is defined.  On a question
\* node `current->animal->getName()` dereferences a null unique_ptr, and on a
\* destroyed node every access is a use after free: undefined behaviour, either
\* the process dies there or the statements run on what the cell holds.
ApiLearn ==
    /\ pc \in ApiReady
    /\ remaining >= 2
    /\ \E ref \in 1..(next - 1), name \in Names, q \in Questions, a \in Answers :
        /\ current' = ref
        /\ newAnimalName' = name
        /\ newQuestion' = q
        /\ learnAnswer' = a
        /\ IF heap[ref].st = "live" /\ isLeaf(heap, ref)
           THEN /\ heap' = learnNewAnimal(heap, ref, name, q, a, next)
                /\ next' = next + 2
                /\ pc' = "api_learned"
           ELSE \/ /\ pc' = "crashed"
                   /\ UNCHANGED << heap, next >>
                \/ /\ heap' = learnNewAnimal(heap, ref, name, q, a, next)
                   /\ next' = next + 2
                   /\ pc' = "api_learned"
    /\ UNCHANGED << root, answer, choice, listed, outcome, visited, roundHeap, learned,
                    game1 >>

NextApi ==
    \/ ApiReset
    \/ ApiLearn

SpecApi == InitApi /\ [][NextApi]_vars

\* ------------------------------------------------- reading a tree (for the properties)
\* The nodes of the tree rooted at r that are leaves / question nodes by Node::isLeaf.
LeafNodes(h, r) == {n \in Owned(h, r) : isLeaf(h, n)}
QuestionNodes(h, r) == {n \in Owned(h, r) : ~isLeaf(h, n)}

\* n is a live leaf: an animal, no children.
IsLeafShape(h, n) ==
    /\ n # NULL
    /\ h[n].st = "live"
    /\ h[n].animal # NoAnimal
    /\ h[n].yes = NULL
    /\ h[n].no = NULL

\* n is a live leaf carrying the label l.
LeafLabelled(h, n, l) == IsLeafShape(h, n) /\ h[n].animal = << l >>

\* n is a live question node with text q and both children.
IsQuestion(h, n, q) ==
    /\ n # NULL
    /\ h[n].st = "live"
    /\ h[n].animal = NoAnimal
    /\ h[n].question = q
    /\ h[n].yes # NULL
    /\ h[n].no # NULL

\* The tree rooted at r is the default one.
IsDefault(h, r) ==
    /\ IsQuestion(h, r, "Is your animal warm or cold blooded?")
    /\ LeafLabelled(h, h[r].yes, "Dog")
    /\ LeafLabelled(h, h[r].no, "Snake")
    /\ collectAnimals(h, r) = << "Dog", "Snake" >>

\* The number of edges from n down to target, or -1 when target is not below n.
RECURSIVE DepthFrom(_, _, _)
DepthFrom(h, n, target) ==
    IF n = NULL THEN -1
    ELSE IF n = target THEN 0
    ELSE LET dy == DepthFrom(h, h[n].yes, target)
             dn == DepthFrom(h, h[n].no, target)
         IN  IF dy >= 0 THEN dy + 1
             ELSE IF dn >= 0 THEN dn + 1
             ELSE -1

\* The answers leading from n down to target; << "absent" >> when target is not below n.
RECURSIVE PathFrom(_, _, _)
PathFrom(h, n, target) ==
    IF n = NULL THEN << "absent" >>
    ELSE IF n = target THEN << >>
    ELSE LET py == PathFrom(h, h[n].yes, target)
             pn == PathFrom(h, h[n].no, target)
         IN  IF py # << "absent" >> THEN << "yes" >> \o py
             ELSE IF pn # << "absent" >> THEN << "no" >> \o pn
             ELSE << "absent" >>

\* Every label a leaf can carry in this model.
Labels == Names \cup {"Dog", "Snake"}

\* How many leaves of the tree rooted at r carry the label l.
LabelCount(h, r, l) == Cardinality({n \in LeafNodes(h, r) : h[n].animal = << l >>})

\* No node occurs twice in the sequence s.
NoRepeat(s) == \A i, j \in 1..Len(s) : i # j => s[i] # s[j]

\* The step is learnNewAnimal's last one: the branch answer is read and the node rebuilt.
LearnStep == pc = "teach_answer" /\ pc' = "menu"

\* ------------------------------------------------------------------ claims

\* C1: right after construction, and after a reset from any reachable tree, the
\* tree is exactly the default one (root question, yes leaf Dog, no leaf Snake,
\* collectAnimals = [Dog, Snake]) and no node of the previous graph is reachable.
C1_DefaultAfterReset ==
    /\ IsDefault(heap, root)
    /\ [][ (pc = "menu" /\ choice' = 2) =>
             /\ IsDefault(heap', root')
             /\ current' = root'
             /\ Owned(heap', root') \cap Owned(heap, root) = {}
             /\ \A n \in Owned(heap, root) : heap'[n].st = "freed"
             /\ Cardinality(Owned(heap', root')) = 3 ]_vars

\* C1 witness: a reset happened on a tree that had learnt an animal.
C1_Witness ==
    /\ choice = 2
    /\ root = 6
    /\ heap[1].st = "freed"
    /\ heap[4].st = "freed"
    /\ heap[5].st = "freed"
    /\ IsDefault(heap, root)

\* C2: learn with branch answer "yes" turns the leaf under the cursor (label X) into
\* a question node with text Q, yes child a leaf labelled Y, no child a leaf labelled X.
C2_LearnYes ==
    [][ (LearnStep /\ learnAnswer' = "yes") =>
          /\ IsLeafShape(heap, current)
          /\ ~isLeaf(heap', current)
          /\ IsQuestion(heap', current, newQuestion)
          /\ LeafLabelled(heap', heap'[current].yes, newAnimalName)
          /\ LeafLabelled(heap', heap'[current].no, getName(heap[current].animal))
          /\ heap'[current].yes # heap'[current].no ]_vars

\* C2 witness: an animal was taught with "yes" at a leaf below a learnt question.
C2_Witness ==
    /\ pc = "menu"
    /\ outcome = "Taught"
    /\ learnAnswer = "yes"
    /\ Len(visited) = 3
    /\ IsQuestion(heap, current, "Does it bark?")
    /\ LeafLabelled(heap, heap[current].yes, newAnimalName)

\* C3: learn with branch answer "no" is the mirror image: the yes child is the leaf
\* with the old label X, the no child the leaf with the new label Y.
C3_LearnNo ==
    [][ (LearnStep /\ learnAnswer' = "no") =>
          /\ IsLeafShape(heap, current)
          /\ ~isLeaf(heap', current)
          /\ IsQuestion(heap', current, newQuestion)
          /\ LeafLabelled(heap', heap'[current].yes, getName(heap[current].animal))
          /\ LeafLabelled(heap', heap'[current].no, newAnimalName)
          /\ heap'[current].yes # heap'[current].no ]_vars

\* C3 witness: an animal was taught with "no" at the Snake leaf.
C3_Witness ==
    /\ pc = "menu"
    /\ outcome = "Taught"
    /\ learnAnswer = "no"
    /\ current = heap[root].no
    /\ LeafLabelled(heap, heap[current].yes, "Snake")
    /\ LeafLabelled(heap, heap[current].no, "Cat")

\* The tree the end-to-end scenario ends with.
ScenarioTree(h, r) ==
    /\ IsQuestion(h, r, "Is your animal warm or cold blooded?")
    /\ IsQuestion(h, h[r].yes, "Does it bark?")
    /\ LeafLabelled(h, h[h[r].yes].yes, "Dog")
    /\ LeafLabelled(h, h[h[r].yes].no, "Cat")
    /\ LeafLabelled(h, h[r].no, "Snake")
    /\ collectAnimals(h, r) = << "Dog", "Cat", "Snake" >>

\* C4: from the default tree, "yes" at the root reaches the leaf Dog; refusing the
\* guess and teaching Cat / "Does it bark?" / "no" leaves root.yes = question
\* "Does it bark?" (yes Dog, no Cat), root.no = Snake, collectAnimals = [Dog, Cat, Snake].
C4_EndToEnd ==
    [][ /\ (pc = "ask" /\ IsDefault(heap, root) /\ current = root /\ answer' = "yes")
            => (pc' = "guess" /\ LeafLabelled(heap', current', "Dog"))
        /\ (/\ LearnStep
            /\ IsDefault(heap, root)
            /\ visited = << root, heap[root].yes >>
            /\ answer = "no"
            /\ newAnimalName = "Cat"
            /\ newQuestion = "Does it bark?"
            /\ learnAnswer' = "no")
            => ScenarioTree(heap', root') ]_vars

\* C4 witness: the scenario was played on the default tree.
C4_Witness ==
    /\ pc = "menu"
    /\ outcome = "Taught"
    /\ answer = "no"
    /\ learnAnswer = "no"
    /\ newAnimalName = "Cat"
    /\ current = heap[root].yes
    /\ Cardinality(Owned(heap, root)) = 5
    /\ ScenarioTree(heap, root)

\* C5: learn adds exactly one occurrence of the new label to the multiset of leaf
\* labels and drops none; every other leaf keeps its label and its position.
C5_LabelsPreserved ==
    [][ LearnStep =>
          /\ \A l \in Labels :
                LabelCount(heap', root', l) =
                    LabelCount(heap, root, l) + (IF l = newAnimalName THEN 1 ELSE 0)
          /\ \A n \in LeafNodes(heap, root) \ {current} :
                /\ n \in LeafNodes(heap', root')
                /\ heap'[n].animal = heap[n].animal
                /\ PathFrom(heap', root', n) = PathFrom(heap, root, n) ]_vars

\* C5 witness: a label already in the tree was taught again, next to other leaves.
C5_Witness ==
    /\ pc = "menu"
    /\ outcome = "Taught"
    /\ LabelCount(heap, root, "Dog") = 2
    /\ LabelCount(heap, root, "Cat") = 1
    /\ LabelCount(heap, root, "Snake") = 1

\* C6: each learn adds exactly one question node and one leaf: two nodes in all.
C6_GrowthByTwo ==
    [][ LearnStep =>
          /\ Cardinality(QuestionNodes(heap', root')) = Cardinality(QuestionNodes(heap, root)) + 1
          /\ Cardinality(LeafNodes(heap', root')) = Cardinality(LeafNodes(heap, root)) + 1
          /\ Cardinality(Owned(heap', root')) = Cardinality(Owned(heap, root)) + 2 ]_vars

\* C6 witness: a third animal was learnt: the tree holds 9 nodes, 4 questions and 5 leaves.
C6_Witness ==
    /\ pc = "menu"
    /\ outcome = "Taught"
    /\ Cardinality(Owned(heap, root)) = 9
    /\ Cardinality(QuestionNodes(heap, root)) = 4
    /\ Cardinality(LeafNodes(heap, root)) = 5

\* C7: in a round, the cursor is at the end of the path of valid answers given so
\* far: the number of valid steps equals the depth of the node under the cursor,
\* so a leaf is reached after as many steps as its depth, and no node is visited twice.
C7_TraversalDepth ==
    pc \in {"ask", "guess"} =>
        /\ visited[1] = root
        /\ visited[Len(visited)] = current
        /\ Len(visited) - 1 = DepthFrom(heap, root, current)
        /\ NoRepeat(visited)
        /\ (pc = "guess" <=> isLeaf(heap, current))

\* C7 witness: a leaf at depth 3 was reached (in a tree grown by two learns).
C7_Witness ==
    /\ pc = "guess"
    /\ isLeaf(heap, current)
    /\ Len(visited) = 4
    /\ DepthFrom(heap, root, current) = 3

\* C8: learn called with a reference that is not a live leaf of the tree (a question
\* node, a leaf destroyed by an earlier reset, a node outside the tree) signals
\* InvalidReference and leaves the tree unmodified.
C8_InvalidReference ==
    [][ (/\ pc \in ApiReady
         /\ pc' \notin {"api_reset"}
         /\ ~(current' \in LeafNodes(heap, root) /\ IsLeafShape(heap, current')))
        => (/\ pc' = "InvalidReference"
            /\ root' = root
            /\ \A n \in Owned(heap, root) : heap'[n] = heap[n]) ]_vars

\* C9: while traversing, a token other than yes/no leaves the cursor on the same
\* question node and the tree unchanged, and the question is asked again; "yes"
\* moves the cursor to the yes child and "no" to the no child.
C9_TraversingStep ==
    [][ pc = "ask" =>
          /\ heap' = heap /\ root' = root
          /\ (answer' \notin {"yes", "no"} => (current' = current /\ pc' = "ask"))
          /\ (answer' = "yes" => current' = heap[current].yes)
          /\ (answer' = "no" => current' = heap[current].no) ]_vars

\* C9 witness: an invalid token was read at a learnt question node below the root.
C9_Witness ==
    /\ pc = "ask"
    /\ answer = "maybe"
    /\ current # root
    /\ heap[current].question = "Does it bark?"
    /\ Len(visited) = 2

\* C10: at the guess prompt a token other than yes/no re-prompts: the session stays
\* at the guess on the same leaf; the round ends only on "yes" or "no".
C10_GuessReprompt ==
    [][ (pc = "guess" /\ answer' \notin {"yes", "no"}) =>
          (pc' = "guess" /\ current' = current) ]_vars

\* C11: a branch answer of the teaching step that is neither "yes" nor "no" is no
\* error and changes nothing: the tree is not mutated and no branch is chosen.
C11_BranchAnswerReprompt ==
    [][ (pc = "teach_answer" /\ learnAnswer' \notin {"yes", "no"}) =>
          (heap' = heap /\ root' = root /\ pc' = "teach_answer") ]_vars

\* The leaves below n, each paired with the place of its path in the order that
\* puts yes before no: a path is read as a binary fraction, yes = 0 and no = 1,
\* `key` being the digits taken so far and `weight` the value of the next digit.
\* Of two leaves, the one whose path goes to yes where the paths part has the
\* smaller key.
RECURSIVE LeafKeys(_, _, _, _)
LeafKeys(h, n, key, weight) ==
    IF n = NULL THEN {}
    ELSE IF h[n].yes = NULL /\ h[n].no = NULL THEN {<< n, key >>}
    ELSE LeafKeys(h, h[n].yes, key, weight \div 2)
            \cup LeafKeys(h, h[n].no, key + weight, weight \div 2)

\* C12: collectAnimals returns the leaf labels in depth-first order, yes subtree
\* before no subtree, one entry per leaf and none for a question node; listAnimals
\* prints exactly that.
C12_CollectOrder ==
    \A out \in {collectAnimals(heap, root)} :
    \A K \in {LeafKeys(heap, root, 0, 2 ^ MaxNodes)} :
        /\ Len(out) = Cardinality(K)
        /\ {e[1] : e \in K} = LeafNodes(heap, root)
        /\ \A e \in K :
              \A rank \in {1 + Cardinality({f \in K : f[2] < e[2]})} :
                 /\ rank \in 1..Len(out)
                 /\ out[rank] = getName(heap[e[1]].animal)
                 /\ \A f \in K : f[1] # e[1] => f[2] # e[2]
        /\ (pc = "menu" /\ choice = 3) => listed = out

\* C12 witness: four animals were listed, the learnt ones in the yes subtree.
C12_Witness ==
    /\ pc = "menu"
    /\ choice = 3
    /\ listed = << "Cat", "Dog", "Dog", "Snake" >>
    /\ ~isLeaf(heap, heap[root].yes)
    /\ isLeaf(heap, heap[root].no)

\* C13: the post-round menu changes the tree only through reset.  1 starts a round
\* on the unchanged tree; 3 lists the animals, leaves the tree unchanged and stays at
\* the menu; an invalid choice leaves the tree unchanged and stays at the menu;
\* 2 restores the default tree and starts a round; 4 ends the process, after which
\* nothing happens any more.
C13_MenuFrame ==
    [][ /\ (pc = "menu" /\ choice' = 1) =>
              /\ heap' = heap /\ root' = root
              /\ current' = root /\ pc' = atNode(heap, root)
        /\ (pc = "menu" /\ choice' = 3) =>
              /\ heap' = heap /\ root' = root
              /\ pc' = "menu"
              /\ listed' = collectAnimals(heap, root)
        /\ (pc = "menu" /\ choice' \notin {1, 2, 3, 4}) =>
              /\ heap' = heap /\ root' = root
              /\ pc' = "menu"
        /\ (pc = "menu" /\ choice' = 2) =>
              /\ IsDefault(heap', root')
              /\ current' = root' /\ pc' = "ask"
        /\ (pc = "menu" /\ choice' = 4) =>
              /\ heap' = heap /\ root' = root
              /\ pc' = "exited"
        /\ pc # "exited" ]_vars

\* C13 witness: the animals were listed at the menu after a round that taught one.
C13_Witness ==
    /\ pc = "menu"
    /\ choice = 3
    /\ outcome = "Taught"
    /\ Len(listed) = 3
    /\ listed = collectAnimals(heap, root)

\* The Node objects that exist.
LiveNodes(h) == {n \in NodeIds : h[n].st = "live"}

\* n has the shape of a question node: no animal, both children.
QuestionShape(h, n) ==
    /\ h[n].animal = NoAnimal
    /\ h[n].yes # NULL
    /\ h[n].no # NULL

\* n has the shape of a leaf: an animal, no child, no question text.
LeafShape(h, n) ==
    /\ h[n].animal # NoAnimal
    /\ Len(h[n].animal) = 1
    /\ h[n].yes = NULL
    /\ h[n].no = NULL
    /\ h[n].question = ""

\* C14: every node is a question node with both children and no animal, or a leaf
\* with an animal, no children and empty question text; never anything in between.
C14_TwoShapes ==
    /\ Owned(heap, root) \subseteq LiveNodes(heap)
    /\ \A n \in LiveNodes(heap) :
          /\ QuestionShape(heap, n) \/ LeafShape(heap, n)
          /\ ~(QuestionShape(heap, n) /\ LeafShape(heap, n))
          /\ isLeaf(heap, n) <=> LeafShape(heap, n)

\* C14 witness: after a reset an animal was taught; the tree has two question nodes
\* and three leaves.
C14_Witness ==
    /\ pc = "menu"
    /\ outcome = "Taught"
    /\ root = 6
    /\ Cardinality({n \in LiveNodes(heap) : QuestionShape(heap, n)}) = 2
    /\ Cardinality({n \in LiveNodes(heap) : LeafShape(heap, n)}) = 3

\* How many child pointers of the nodes V point at n.
ParentCount(h, V, n) ==
    Cardinality({p \in V : h[p].yes = n}) + Cardinality({p \in V : h[p].no = n})

\* The proper ancestors of n, climbing the parent function par at most k times.
RECURSIVE Climb(_, _, _, _)
Climb(par, r, n, k) ==
    IF n = r \/ k = 0 THEN {}
    ELSE {par[n]} \cup Climb(par, r, par[n], k - 1)

\* The live nodes of h form a tree rooted at r: r has no parent, every other node
\* exactly one (so no node is the child of two nodes or both children of one),
\* no node is its own ancestor, and every node hangs below r.
IsTree(h, r) ==
    \A V \in {LiveNodes(h)} :
        /\ r \in V
        /\ ParentCount(h, V, r) = 0
        /\ \A n \in V :
              /\ h[n].yes \in V \cup {NULL}
              /\ h[n].no \in V \cup {NULL}
              /\ n # r => ParentCount(h, V, n) = 1
        /\ \A par \in {[n \in V \ {r} |->
                          CHOOSE p \in V : h[p].yes = n \/ h[p].no = n]} :
              \A n \in V :
                 \A anc \in {Climb(par, r, n, MaxNodes)} :
                    /\ n \notin anc
                    /\ n # r => r \in anc

\* C15: the node graph is a tree rooted at the tree's root in every reachable
\* state: it is one when the program starts, and every step that changes a node
\* or the root (a reset, a learn) leaves a tree.
C15_IsTree ==
    /\ IsTree(heap, root)
    /\ [][(heap' # heap \/ root' # root) => IsTree(heap', root')]_vars

\* C15 witness: after a reset two animals were taught, one below the other.
C15_Witness ==
    /\ root = 4
    /\ Cardinality(LiveNodes(heap)) = 7
    /\ \E n \in LiveNodes(heap) : DepthFrom(heap, root, n) = 3

\* The states of a round in progress.
RoundStates == {"ask", "guess", "teach_name", "teach_question", "teach_answer"}

\* C16: a round changes the tree only by teaching.  While a round is in progress
\* the tree is the one the round started with; a round that ended Confirmed left it
\* so; learnNewAnimal runs at most once per round, and only with the cursor on a
\* leaf whose guess was answered "no".  The only other change of the tree is the
\* menu's reset.
C16_OnlyTeachingMutates ==
    /\ [](/\ learned \in {0, 1}
          /\ pc \in RoundStates => (heap = roundHeap /\ learned = 0)
          /\ (pc \notin RoundStates /\ outcome # "Taught") =>
                (heap = roundHeap /\ learned = 0)
          /\ (pc \notin RoundStates /\ learned = 1) => outcome = "Taught")
    /\ [][ (heap' # heap \/ root' # root) =>
             \/ pc = "menu" /\ choice' = 2
             \/ /\ pc = "teach_answer"
                /\ pc' = "menu"
                /\ outcome' = "Taught"
                /\ learned = 0 /\ learned' = 1
                /\ answer = "no"
                /\ isLeaf(heap, current)
                /\ current = visited[Len(visited)] ]_vars

\* C16 witness: on a tree that had learnt an animal, a round ended Confirmed at
\* the learnt leaf, the tree being the one the round started with.
C16_Witness ==
    /\ pc = "menu"
    /\ outcome = "Confirmed"
    /\ learned = 0
    /\ heap = roundHeap
    /\ Len(visited) = 3
    /\ Cardinality(Owned(heap, root)) = 5

\* C17: the game never hands learnNewAnimal a bad pointer.  Every round starts with
\* the cursor on the current root; during a round the cursor is a live node of the
\* tree below the current root; learnNewAnimal is entered and run only on the live
\* leaf under the cursor, and rebuilds no other existing node.
C17_CursorInTree ==
    /\ current = root
    /\ [](pc \in RoundStates =>
            /\ visited[1] = root
            /\ heap[current].st = "live"
            /\ current \in Owned(heap, root)
            /\ pc \in {"teach_name", "teach_question", "teach_answer"} =>
                  (IsLeafShape(heap, current) /\ current = visited[Len(visited)]))
    /\ [][ /\ (pc \notin RoundStates /\ pc' \in RoundStates) =>
                 (current' = root' /\ visited' = << root' >> /\ heap'[root'].st = "live")
           /\ LearnStep =>
                 /\ current \in LeafNodes(heap, root)
                 /\ IsLeafShape(heap, current)
                 /\ \A n \in LiveNodes(heap) \ {current} : heap'[n] = heap[n] ]_vars

\* C17 witness: after a reset and a first teaching, learnNewAnimal is about to
\* rebuild a leaf two levels below the new root.
C17_Witness ==
    /\ pc = "teach_answer"
    /\ root = 4
    /\ Len(visited) = 3
    /\ heap[1].st = "freed"
    /\ IsLeafShape(heap, current)

\* C18: with a caller who eventually answers "yes" or "no" at each prompt, every
\* round in progress eventually ends Confirmed or Taught.
C18_RoundTerminates ==
    (pc \in RoundStates) ~> (pc \notin RoundStates /\ outcome \in {"Confirmed", "Taught"})

\* C19: between two resets the tree only grows.  A step that is not the menu's reset
\* keeps the root, removes and destroys no node, does not lower the node count and
\* leaves every existing question node as it is (text and children).
C19_OnlyGrows ==
    [][ ~(pc = "menu" /\ choice' = 2) =>
          /\ root' = root
          /\ Owned(heap, root) \subseteq Owned(heap', root')
          /\ Cardinality(Owned(heap', root')) >= Cardinality(Owned(heap, root))
          /\ \A n \in LiveNodes(heap) : heap'[n].st = "live"
          /\ \A n \in QuestionNodes(heap, root) : heap'[n] = heap[n] ]_vars

\* C19 witness: three animals were taught one after another with no reset between.
C19_Witness ==
    /\ pc = "menu"
    /\ outcome = "Taught"
    /\ root = 1
    /\ choice = 1
    /\ Cardinality(QuestionNodes(heap, root)) = 4
    /\ \A n \in NodeIds : heap[n].st # "freed"

\* C20: the root is always present, always a question node and never a leaf, and
\* its text is always "Is your animal warm or cold blooded?".
C20_RootIsQuestion ==
    /\ root # NULL
    /\ heap[root].st = "live"
    /\ ~isLeaf(heap, root)
    /\ IsQuestion(heap, root, "Is your animal warm or cold blooded?")
    /\ Cardinality(Owned(heap, root)) >= 3

\* C20 witness: after a reset, rounds taught two animals; the last one just ended.
C20_Witness ==
    /\ pc = "menu"
    /\ outcome = "Taught"
    /\ root = 4
    /\ Cardinality(Owned(heap, root)) = 7
    /\ heap[root].question = "Is your animal warm or cold blooded?"


\* The tree below the pointer n, written out: a leaf is its animal's name, a
\* question node its text with its yes and its no subtree, a null pointer nothing.
RECURSIVE TreeOf(_, _)
TreeOf(h, n) ==
    IF n = NULL THEN << >>
    ELSE IF h[n].animal # NoAnimal THEN << getName(h[n].animal) >>
    ELSE << h[n].question, TreeOf(h, h[n].yes), TreeOf(h, h[n].no) >>

\* What a program waiting at p with its cursor at cur has just printed to be
\* answered: the question of the node, or the animal it guesses.
Shown(h, cur, p) ==
    IF p = "ask" THEN << "question", h[cur].question >>
    ELSE IF p = "guess" THEN << "guess", getName(h[cur].animal) >>
    ELSE << p >>

\* C21: the single-class program and the AnimalTree program, given the same
\* answers, teaching inputs and menu choices from their initial states, are at
\* every step waiting at the same read, hold the same tree, have printed the same
\* question or guess, and have listed the same animals.
C21_SameBehaviour ==
    /\ game1.pc = pc
    /\ TreeOf(game1.heap, game1.root) = TreeOf(heap, root)
    /\ Shown(game1.heap, game1.current, game1.pc) = Shown(heap, current, pc)
    /\ game1.listed = listed

\* C21 witness: both programs were reset, were taught two animals and have just
\* listed their four animals.
C21_Witness ==
    /\ pc = "menu"
    /\ choice = 3
    /\ game1.choice = 3
    /\ game1.root # 1
    /\ heap[1].st = "freed"
    /\ Len(game1.listed) = 4
    /\ Len(listed) = 4

=============================================================================
